---- MODULE Spec2Model ----
(***************************************************************************)
(* maxdirsize: a loop that scans a directory tree, and when the tree's     *)
(* total size reaches max_size_mb, removes files until the total is at or  *)
(* below the margin, then removes the directories whose tracked file count *)
(* is zero (src/src/main.rs).                                              *)
(*                                                                         *)
(* A path is the sequence of its components; <<>> is the filesystem root   *)
(* "/".  Sizes are bytes.                                                   *)
(***************************************************************************)
EXTENDS Integers, Sequences, FiniteSets, TLC

VARIABLES
    fsFiles,                 \* the filesystem: file path -> [size, modified]
    fsDirs,                  \* the filesystem: the directories that exist
    config,                  \* Config: [max_size_mb, margin], read once in main
    pc,                      \* position of main: "sleep", "evict" (while loop), "prune" (for_each)
    sorted_files,            \* process: the Vec<FileInfo> the while loop pops
    parent_dirs_files_count, \* process: HashMap<PathBuf, i32>
    total_size,              \* process: the running total
    pending,                 \* process: keys the final for_each has not visited yet
    tick,                    \* number of iterations of main's loop started
    inventory,               \* observation: the FileInfo entries of this tick's scan
    scanned_total,           \* observation: data.total_size of this tick's scan
    attempts,                \* observation: remove_file calls of this tick, in order
    removed_files,           \* observation: paths whose remove_file succeeded this tick
    failed_files,            \* observation: paths whose remove_file failed this tick
    rmdir_attempts,          \* observation: paths passed to remove_dir this tick
    removed_dirs,            \* observation: paths whose remove_dir succeeded this tick
    empty_at_visit,          \* observation: directories empty when the for_each reached them
    evicting_done,           \* observation: the while loop of this tick has ended
    prev,                    \* observation: how the previous tick ended
    unlistable,              \* the filesystem: directories std::fs::read_dir fails on
    unstatable,              \* the filesystem: entries std::fs::metadata fails on
    scan_failed              \* observation: read_dir returned Err in this tick

vars == <<fsFiles, fsDirs, config, pc, sorted_files, parent_dirs_files_count,
          total_size, pending, tick, inventory, scanned_total, attempts,
          removed_files, failed_files, rmdir_attempts, removed_dirs,
          empty_at_visit, evicting_done, prev, unlistable, unstatable, scan_failed>>

ioVars == <<unlistable, unstatable, scan_failed>>

----------------------------------------------------------------------------
(* Bounds of the model *)

MaxTime == 2        \* modification times are 1..MaxTime
MaxTicks == 2       \* iterations of main's loop

MB == 1024 * 1024

(* The scan root (config.directory) and the tree the model draws from. *)
Directory == <<"d">>
DirA == <<"d", "a">>
DirB == <<"d", "a", "b">>
File0 == <<"d", "f0">>
File1 == <<"d", "a", "f1">>
File2 == <<"d", "a", "b", "f2">>
DirSlots == {DirA, DirB}
FileSlots == {File0, File1, File2}

Sizes == {0, 40 * MB, 200 * MB}
Configs == { [max_size_mb |-> 0,   margin |-> 85],
             [max_size_mb |-> 40,  margin |-> 100],
             [max_size_mb |-> 100, margin |-> 50],
             [max_size_mb |-> 100, margin |-> 85] }

----------------------------------------------------------------------------
(* Paths *)

Parent(p) == SubSeq(p, 1, Len(p) - 1)

StartsWith(p, base) ==
    /\ Len(p) >= Len(base)
    /\ SubSeq(p, 1, Len(base)) = base

\* Path::ancestors(): the path itself, its parent, ..., "/"
Ancestors(p) == [i \in 1..(Len(p) + 1) |-> SubSeq(p, 1, Len(p) + 1 - i)]

\* Iterator::skip(n)
Skip(s, n) == SubSeq(s, n + 1, Len(s))

----------------------------------------------------------------------------
(* read_dir *)

Folder(p) == [kind |-> "Folder", path |-> p, size |-> 0, modified |-> 0]
FileEntry(p, info) ==
    [kind |-> "File", path |-> p, size |-> info.size, modified |-> info.modified]

Children(p) == {q \in (DOMAIN fsFiles) \cup fsDirs : Len(q) = Len(p) + 1 /\ Parent(q) = p}

\* the orders in which std::fs::read_dir may yield the children
Listings(S) ==
    {l \in [1..Cardinality(S) -> S] : \A i, j \in DOMAIN l : i # j => l[i] # l[j]}

RECURSIVE read_dir(_)
RECURSIVE ReadDirFrom(_, _, _)

\* Err(e) of std::io::Result<ReadDirResult>
ScanErr == [ok |-> FALSE, entries |-> <<>>, total_size |-> 0]
\* Ok(ReadDirResult { entries, total_size })
ScanOk(entries, total) == [ok |-> TRUE, entries |-> entries, total_size |-> total]

RECURSIVE ReadDirFromFlat(_, _, _)
\* variant of the loop that leaves the sizes of a subdirectory out of the total
ReadDirFromFlat(listing, i, acc) ==
    IF i > Len(listing) THEN {acc}
    ELSE LET path == listing[i] IN
         IF path \in unstatable
         THEN ReadDirFromFlat(listing, i + 1, acc)
         ELSE IF path \in fsDirs
         THEN UNION { IF items.ok
                      THEN ReadDirFromFlat(listing, i + 1,
                             ScanOk(acc.entries \o <<Folder(path)>> \o items.entries,
                                    acc.total_size))
                      ELSE {ScanErr}
                      : items \in read_dir(path) }
         ELSE ReadDirFromFlat(listing, i + 1,
                  ScanOk(Append(acc.entries, FileEntry(path, fsFiles[path])),
                         acc.total_size + fsFiles[path].size))

RECURSIVE ReadDirFromLenient(_, _, _)
\* variant of the loop that skips a subdirectory it cannot list
ReadDirFromLenient(listing, i, acc) ==
    IF i > Len(listing) THEN {acc}
    ELSE LET path == listing[i] IN
         IF path \in unstatable
         THEN ReadDirFromLenient(listing, i + 1, acc)
         ELSE IF path \in fsDirs
         THEN UNION { IF items.ok
                      THEN ReadDirFromLenient(listing, i + 1,
                             ScanOk(acc.entries \o <<Folder(path)>> \o items.entries,
                                    acc.total_size + items.total_size))
                      ELSE ReadDirFromLenient(listing, i + 1,
                             ScanOk(Append(acc.entries, Folder(path)), acc.total_size))
                      : items \in read_dir(path) }
         ELSE ReadDirFromLenient(listing, i + 1,
                  ScanOk(Append(acc.entries, FileEntry(path, fsFiles[path])),
                         acc.total_size + fsFiles[path].size))

\* the for loop of read_dir over one listing, from its i-th entry on: an entry
\* whose metadata cannot be read is logged and skipped, a directory is pushed
\* and walked, and `read_dir(&path)?` returns the error of a walk that failed
ReadDirFrom(listing, i, acc) ==
    IF i > Len(listing) THEN {acc}
    ELSE LET path == listing[i] IN
         IF path \in unstatable
         THEN ReadDirFrom(listing, i + 1, acc)
         ELSE IF path \in fsDirs
         THEN UNION { IF items.ok
                      THEN ReadDirFrom(listing, i + 1,
                             ScanOk(acc.entries \o <<Folder(path)>> \o items.entries,
                                    acc.total_size + items.total_size))
                      ELSE {ScanErr}
                      : items \in read_dir(path) }
         ELSE ReadDirFrom(listing, i + 1,
                  ScanOk(Append(acc.entries, FileEntry(path, fsFiles[path])),
                         acc.total_size + fsFiles[path].size))

\* the results read_dir(path) can return, one per enumeration order;
\* `std::fs::read_dir(path)?` returns the error of a listing that failed
read_dir(path) ==
    IF path \in unlistable THEN {ScanErr}
    ELSE UNION { ReadDirFrom(l, 1, ScanOk(<<>>, 0)) : l \in Listings(Children(path)) }

----------------------------------------------------------------------------
(* process: seeding of the count map *)

\* *map.entry(k).or_insert(0) += n
EntryAdd(map, k, n) ==
    [x \in (DOMAIN map) \cup {k} |->
        IF x = k THEN (IF k \in DOMAIN map THEN map[k] ELSE 0) + n
        ELSE map[x]]

RECURSIVE CountAncestorsToRoot(_, _, _, _)
\* variant of the closure that stops only outside the scan root, not at it
CountAncestorsToRoot(map, comps, i, directory) ==
    IF i > Len(comps) THEN map
    ELSE LET component == comps[i] IN
         IF ~StartsWith(component, directory)
         THEN CountAncestorsToRoot(map, comps, i + 1, directory)
         ELSE CountAncestorsToRoot(EntryAdd(map, component, 1), comps, i + 1, directory)

\* variant of the closure that counts a file for its immediate parent alone
CountParentOnly(map, comps, i, directory) ==
    IF comps = <<>> \/ ~StartsWith(comps[1], directory) \/ comps[1] = directory
    THEN map
    ELSE EntryAdd(map, comps[1], 1)

RECURSIVE CountAncestors(_, _, _, _)
\* the for_each closure over file.path.ancestors().skip(1)
CountAncestors(map, comps, i, directory) ==
    IF i > Len(comps) THEN map
    ELSE LET component == comps[i] IN
         IF ~StartsWith(component, directory) \/ component = directory
         THEN CountAncestors(map, comps, i + 1, directory)
         ELSE CountAncestors(EntryAdd(map, component, 1), comps, i + 1, directory)

RECURSIVE SeedCountsFilesOnly(_, _, _, _)
\* variant of the seeding that makes no entry for a Folder
SeedCountsFilesOnly(map, entries, i, directory) ==
    IF i > Len(entries) THEN map
    ELSE LET e == entries[i] IN
         IF e.kind = "Folder"
         THEN SeedCountsFilesOnly(map, entries, i + 1, directory)
         ELSE SeedCountsFilesOnly(
                  CountAncestors(map, Skip(Ancestors(e.path), 1), 1, directory),
                  entries, i + 1, directory)

RECURSIVE SeedCounts(_, _, _, _)
\* the first for loop of process over data.entries
SeedCounts(map, entries, i, directory) ==
    IF i > Len(entries) THEN map
    ELSE LET e == entries[i] IN
         IF e.kind = "Folder"
         THEN SeedCounts(EntryAdd(map, e.path, 0), entries, i + 1, directory)
         ELSE SeedCounts(CountAncestors(map, Skip(Ancestors(e.path), 1), 1, directory),
                         entries, i + 1, directory)

EmptyMap == [x \in {} |-> 0]

----------------------------------------------------------------------------
(* process: the victim queue *)

\* entries.into_iter().filter_map(File)
FilesOf(entries) == SelectSeq(entries, LAMBDA e : e.kind = "File")

RECURSIVE InsertSorted(_, _)
\* stable insertion of x after every element that does not compare greater
InsertSorted(s, x) ==
    IF s = <<>> THEN <<x>>
    ELSE IF s[Len(s)].modified <= x.modified THEN Append(s, x)
    ELSE Append(InsertSorted(SubSeq(s, 1, Len(s) - 1), x), s[Len(s)])

RECURSIVE SortFrom(_, _, _)
SortFrom(acc, s, i) ==
    IF i > Len(s) THEN acc ELSE SortFrom(InsertSorted(acc, s[i]), s, i + 1)

\* sorted_files.sort_by(|a, b| a.modified.cmp(&b.modified)): stable, ascending
SortByModified(s) == SortFrom(<<>>, s, 1)

----------------------------------------------------------------------------
(* The low-water mark: (margin as f32 / 100.0) as f64 * max_size_bytes as f64, as u64 *)

RECURSIVE Pow2(_)
Pow2(n) == IF n = 0 THEN 1 ELSE 2 * Pow2(n - 1)

\* the least k with m * 2^k >= 100: m / 100 lies in [2^-k, 2^(1-k))
RECURSIVE BinadeFrom(_, _)
BinadeFrom(m, k) == IF m * Pow2(k) >= 100 THEN k ELSE BinadeFrom(m, k + 1)

\* round-to-nearest, ties-to-even quotient n / d
RoundDiv(n, d) ==
    LET q == n \div d
        r == n % d
    IN  IF 2 * r > d \/ (2 * r = d /\ q % 2 = 1) THEN q + 1 ELSE q

\* config.margin as f32 / 100.0: the f32 nearest to m/100, as mant / 2^shift
MarginF32(m) ==
    IF m = 0 THEN [mant |-> 0, shift |-> 23]
    ELSE LET k == BinadeFrom(m, 0)
         IN  [mant |-> RoundDiv(m * Pow2(23 + k), 100), shift |-> 23 + k]

\* max_size_mb * 1024 * 1024
MaxSizeBytes(max_size_mb) == max_size_mb * 1024 * 1024

RECURSIVE MulDiv(_, _, _)
\* [q, r] with b * m = q * d + r and 0 <= r < d, by doubling over the bits of b
MulDiv(b, m, d) ==
    IF b = 0 THEN [q |-> 0, r |-> 0]
    ELSE LET h == MulDiv(b \div 2, m, d)
             r2 == 2 * h.r + (IF b % 2 = 1 THEN m ELSE 0)
         IN  [q |-> 2 * h.q + r2 \div d, r |-> r2 % d]

\* margin as f64 * max_size_bytes as f64, truncated by `as u64`.  The f32 widens
\* exactly, and the product mant * max_size_bytes / 2^shift has fewer than 53
\* significant bits for the sizes of the model, so the f64 product is exact.
MarginBytes(margin, max_size_bytes) ==
    MulDiv(max_size_bytes, margin.mant, Pow2(margin.shift)).q

TargetBytes == MarginBytes(MarginF32(config.margin), MaxSizeBytes(config.max_size_mb))

----------------------------------------------------------------------------
(* Initial states: a tree under the scan root and a configuration. *)

FileInfos == [size : Sizes, modified : 1..MaxTime]

WellFormed(files, dirs) ==
    /\ Directory \in dirs
    /\ \A d \in dirs \ {Directory} : Parent(d) \in dirs
    /\ \A f \in DOMAIN files : Parent(f) \in dirs

NoPrev ==
    [ran |-> FALSE, satisfied |-> FALSE, failed |-> FALSE, removed |-> FALSE, blocked |-> {},
     scan_failed |-> FALSE]

Init ==
    /\ \E ds \in SUBSET DirSlots, fs \in SUBSET FileSlots :
          /\ fsDirs = ds \cup {Directory}
          /\ fsFiles \in [fs -> FileInfos]
          /\ WellFormed(fsFiles, fsDirs)
    /\ config \in Configs
    /\ pc = "sleep"
    /\ sorted_files = <<>>
    /\ parent_dirs_files_count = EmptyMap
    /\ total_size = 0
    /\ pending = {}
    /\ tick = 0
    /\ inventory = {}
    /\ scanned_total = 0
    /\ attempts = <<>>
    /\ removed_files = {}
    /\ failed_files = {}
    /\ rmdir_attempts = {}
    /\ removed_dirs = {}
    /\ empty_at_visit = {}
    /\ evicting_done = FALSE
    /\ prev = NoPrev
    /\ unlistable = {}
    /\ unstatable = {}
    /\ scan_failed = FALSE

----------------------------------------------------------------------------
(* main's loop body: read_dir, then process up to the size check *)

\* how the tick that is ending went, kept for the next one
Summary ==
    [ran |-> tick > 0 /\ ~scan_failed, scan_failed |-> scan_failed, satisfied |-> total_size <= TargetBytes,
     failed |-> failed_files # {}, removed |-> removed_files # {},
     blocked |-> {d \in rmdir_attempts \ removed_dirs :
                    d \in fsDirs /\ \A q \in (DOMAIN fsFiles) \cup fsDirs : Parent(q) # d}]

BeginTick(data) ==
    /\ tick' = tick + 1
    /\ prev' = Summary
    /\ inventory' = {data.entries[i] : i \in {j \in DOMAIN data.entries : data.entries[j].kind = "File"}}
    /\ scanned_total' = data.total_size
    /\ attempts' = <<>>
    /\ removed_files' = {}
    /\ failed_files' = {}
    /\ rmdir_attempts' = {}
    /\ removed_dirs' = {}
    /\ empty_at_visit' = {}
    /\ parent_dirs_files_count' = SeedCounts(EmptyMap, data.entries, 1, Directory)
    /\ total_size' = data.total_size
    /\ pending' = {}
    /\ scan_failed' = FALSE
    /\ UNCHANGED <<fsFiles, fsDirs, config, unlistable, unstatable>>

\* variant of the size check that compares bytes against the limit in megabytes
NoCleanupNeededInMb(total, max_size_mb) == total < max_size_mb

\* variant of the size check that also returns when the scan found no bytes
NoCleanupNeededOrEmpty(total, max_size_mb) ==
    total < MaxSizeBytes(max_size_mb) \/ total = 0

\* the size check of process: if total_size < max_size_bytes { ...; return; }
NoCleanupNeeded(total, max_size_mb) == total < MaxSizeBytes(max_size_mb)

\* variant of the size check without the return: the cleanup follows anyway
ProcessBelowLimitNoReturn ==
    /\ pc = "sleep"
    /\ tick < MaxTicks
    /\ \E data \in read_dir(Directory) :
          /\ data.ok
          /\ NoCleanupNeeded(data.total_size, config.max_size_mb)
          /\ BeginTick(data)
          /\ sorted_files' = SortByModified(FilesOf(data.entries))
          /\ evicting_done' = FALSE
          /\ pc' = "evict"

\* process returns at the size check
ProcessBelowLimit ==
    /\ pc = "sleep"
    /\ tick < MaxTicks
    /\ \E data \in read_dir(Directory) :
          /\ data.ok
          /\ NoCleanupNeeded(data.total_size, config.max_size_mb)
          /\ BeginTick(data)
          /\ sorted_files' = <<>>
          /\ evicting_done' = FALSE
          /\ pc' = "sleep"

\* process goes on to the cleanup: filter, sort, enter the while loop
ProcessCleanup ==
    /\ pc = "sleep"
    /\ tick < MaxTicks
    /\ \E data \in read_dir(Directory) :
          /\ data.ok
          /\ ~NoCleanupNeeded(data.total_size, config.max_size_mb)
          /\ BeginTick(data)
          /\ sorted_files' = SortByModified(FilesOf(data.entries))
          /\ evicting_done' = FALSE
          /\ pc' = "evict"

\* what a tick whose scan failed leaves: process was not called
TickSkipped ==
    /\ tick' = tick + 1
    /\ prev' = Summary
    /\ scan_failed' = TRUE
    /\ inventory' = {}
    /\ scanned_total' = 0
    /\ attempts' = <<>>
    /\ removed_files' = {}
    /\ failed_files' = {}
    /\ rmdir_attempts' = {}
    /\ removed_dirs' = {}
    /\ empty_at_visit' = {}
    /\ evicting_done' = FALSE
    /\ sorted_files' = <<>>
    /\ parent_dirs_files_count' = EmptyMap
    /\ total_size' = 0
    /\ pending' = {}
    /\ UNCHANGED <<fsFiles, fsDirs, config, unlistable, unstatable>>

\* variant of the Err arm that ends the program, as data.unwrap() would
ScanFailExits ==
    /\ pc = "sleep"
    /\ tick < MaxTicks
    /\ \E data \in read_dir(Directory) : ~data.ok
    /\ TickSkipped
    /\ pc' = "exited"

\* the Err arm of main's match: the error is logged, then the sleep
ScanFail ==
    /\ pc = "sleep"
    /\ tick < MaxTicks
    /\ \E data \in read_dir(Directory) : ~data.ok
    /\ TickSkipped
    /\ pc' = "sleep"

\* outside the program, during the sleep: the directories become listable again
EnvRestore ==
    /\ pc = "sleep"
    /\ unlistable # {}
    /\ unlistable' = {}
    /\ UNCHANGED <<fsFiles, fsDirs, config, pc, sorted_files, parent_dirs_files_count,
                   total_size, pending, tick, inventory, scanned_total, attempts,
                   removed_files, failed_files, rmdir_attempts, removed_dirs,
                   empty_at_visit, evicting_done, prev, unstatable, scan_failed>>

----------------------------------------------------------------------------
(* process: the while loop *)

\* variant of pop that reads the last element and leaves it in the Vec
PopRestKeeps(s) == s

\* Vec::pop
PopFile(s) == s[Len(s)]
PopRest(s) == SubSeq(s, 1, Len(s) - 1)

\* get_mut(parent).map(|count| *count -= 1)
DecrementParent(map, path) ==
    IF Parent(path) \in DOMAIN map
    THEN [map EXCEPT ![Parent(path)] = @ - 1]
    ELSE map

\* variant of the loop condition that stops at the limit instead of the margin
LoopRunsToLimit ==
    total_size > MaxSizeBytes(config.max_size_mb) /\ sorted_files # <<>>

\* while total_size > margin as u64 { pop; if none break; ... }
LoopRuns == total_size > TargetBytes /\ sorted_files # <<>>

\* one iteration in which remove_file succeeds
RemoveFileOk ==
    /\ pc = "evict"
    /\ LoopRuns
    /\ LET file == PopFile(sorted_files) IN
          /\ sorted_files' = PopRest(sorted_files)
          /\ fsFiles' = [p \in (DOMAIN fsFiles) \ {file.path} |-> fsFiles[p]]
          /\ parent_dirs_files_count' = DecrementParent(parent_dirs_files_count, file.path)
          /\ total_size' = total_size - file.size
          /\ attempts' = Append(attempts, file)
          /\ removed_files' = removed_files \cup {file.path}
    /\ UNCHANGED <<ioVars, fsDirs, config, pc, pending, tick, inventory, scanned_total,
                   failed_files, rmdir_attempts, removed_dirs, empty_at_visit,
                   evicting_done, prev>>

\* variant of the failing iteration that decrements the parent's count anyway
RemoveFileErrCounted ==
    /\ pc = "evict"
    /\ total_size > TargetBytes /\ sorted_files # <<>>
    /\ LET file == PopFile(sorted_files) IN
          /\ sorted_files' = PopRest(sorted_files)
          /\ parent_dirs_files_count' = DecrementParent(parent_dirs_files_count, file.path)
          /\ total_size' = total_size - file.size
          /\ attempts' = Append(attempts, file)
          /\ failed_files' = failed_files \cup {file.path}
    /\ UNCHANGED <<ioVars, fsFiles, fsDirs, config, pc, pending, tick,
                   inventory, scanned_total, removed_files, rmdir_attempts,
                   removed_dirs, empty_at_visit, evicting_done, prev>>

\* one iteration in which remove_file returns an error
RemoveFileErr ==
    /\ pc = "evict"
    /\ LoopRuns
    /\ LET file == PopFile(sorted_files) IN
          /\ sorted_files' = PopRest(sorted_files)
          /\ total_size' = total_size - file.size
          /\ attempts' = Append(attempts, file)
          /\ failed_files' = failed_files \cup {file.path}
    /\ UNCHANGED <<ioVars, fsFiles, fsDirs, config, pc, parent_dirs_files_count, pending, tick,
                   inventory, scanned_total, removed_files, rmdir_attempts,
                   removed_dirs, empty_at_visit, evicting_done, prev>>

\* the loop ends: the condition is false, or pop returned None
EvictEnd ==
    /\ pc = "evict"
    /\ ~LoopRuns
    /\ evicting_done' = TRUE
    /\ pending' = DOMAIN parent_dirs_files_count
    /\ pc' = IF DOMAIN parent_dirs_files_count = {} THEN "sleep" ELSE "prune"
    /\ UNCHANGED <<ioVars, fsFiles, fsDirs, config, sorted_files, parent_dirs_files_count,
                   total_size, tick, inventory, scanned_total, attempts, removed_files,
                   failed_files, rmdir_attempts, removed_dirs, empty_at_visit, prev>>

----------------------------------------------------------------------------
(* process: the final for_each over the count map, in the map's order *)

\* variant of the pruning test that is off by one
PrunableAtOne(count) == count <= 1

\* if *count <= 0
Prunable(count) == count <= 0

\* std::fs::remove_dir succeeds on an existing directory with no entry in it
DirEmpty(path) == path \in fsDirs /\ Children(path) = {}

Visited(path) ==
    /\ pending' = pending \ {path}
    /\ pc' = IF pending = {path} THEN "sleep" ELSE "prune"
    /\ empty_at_visit' = IF DirEmpty(path) THEN empty_at_visit \cup {path} ELSE empty_at_visit

\* the closure skips a directory whose count is positive
PruneSkip ==
    /\ pc = "prune"
    /\ \E path \in pending :
          /\ ~Prunable(parent_dirs_files_count[path])
          /\ Visited(path)
    /\ UNCHANGED <<ioVars, fsFiles, fsDirs, config, sorted_files, parent_dirs_files_count,
                   total_size, tick, inventory, scanned_total, attempts, removed_files,
                   failed_files, rmdir_attempts, removed_dirs, evicting_done, prev>>

\* remove_dir succeeds
RemoveDirOk ==
    /\ pc = "prune"
    /\ \E path \in pending :
          /\ Prunable(parent_dirs_files_count[path])
          /\ DirEmpty(path)
          /\ Visited(path)
          /\ fsDirs' = fsDirs \ {path}
          /\ rmdir_attempts' = rmdir_attempts \cup {path}
          /\ removed_dirs' = removed_dirs \cup {path}
    /\ UNCHANGED <<ioVars, fsFiles, config, sorted_files, parent_dirs_files_count,
                   total_size, tick, inventory, scanned_total, attempts, removed_files,
                   failed_files, evicting_done, prev>>

\* remove_dir returns an error: the directory is not empty
RemoveDirErr ==
    /\ pc = "prune"
    /\ \E path \in pending :
          /\ Prunable(parent_dirs_files_count[path])
          /\ ~DirEmpty(path)
          /\ Visited(path)
          /\ rmdir_attempts' = rmdir_attempts \cup {path}
    /\ UNCHANGED <<ioVars, fsFiles, fsDirs, config, sorted_files, parent_dirs_files_count,
                   total_size, tick, inventory, scanned_total, attempts, removed_files,
                   failed_files, removed_dirs, evicting_done, prev>>

----------------------------------------------------------------------------

Next ==
    \/ ProcessBelowLimit
    \/ ProcessCleanup
    \/ RemoveFileOk
    \/ RemoveFileErr
    \/ EvictEnd
    \/ PruneSkip
    \/ RemoveDirOk
    \/ RemoveDirErr

Spec == Init /\ [][Next]_vars

(* The same program over trees in which a listing or a metadata read fails. *)

IOSizes == {40 * MB}
IOFileInfos == [size : IOSizes, modified : 1..MaxTime]

InitIO ==
    /\ \E ds \in SUBSET DirSlots, fs \in SUBSET FileSlots :
          /\ fsDirs = ds \cup {Directory}
          /\ fsFiles \in [fs -> IOFileInfos]
          /\ WellFormed(fsFiles, fsDirs)
    /\ \E ul \in SUBSET fsDirs, us \in SUBSET ((DOMAIN fsFiles) \cup (fsDirs \ {Directory})) :
          /\ Cardinality(ul) <= 1
          /\ Cardinality(us) <= 1
          /\ ul \cup us # {}
          /\ unlistable = ul
          /\ unstatable = us
    /\ config \in Configs
    /\ pc = "sleep"
    /\ sorted_files = <<>>
    /\ parent_dirs_files_count = EmptyMap
    /\ total_size = 0
    /\ pending = {}
    /\ tick = 0
    /\ inventory = {}
    /\ scanned_total = 0
    /\ attempts = <<>>
    /\ removed_files = {}
    /\ failed_files = {}
    /\ rmdir_attempts = {}
    /\ removed_dirs = {}
    /\ empty_at_visit = {}
    /\ evicting_done = FALSE
    /\ prev = NoPrev
    /\ scan_failed = FALSE

NextIO ==
    \/ ProcessBelowLimit
    \/ ProcessCleanup
    \/ ScanFail
    \/ RemoveFileOk
    \/ RemoveFileErr
    \/ EvictEnd
    \/ PruneSkip
    \/ RemoveDirOk
    \/ RemoveDirErr
    \/ EnvRestore

SpecIO == InitIO /\ [][NextIO]_vars

TypeOK ==
    /\ pc \in {"sleep", "evict", "prune"}
    /\ total_size \in Nat
    /\ tick \in 0..MaxTicks
    /\ \A p \in DOMAIN parent_dirs_files_count : parent_dirs_files_count[p] \in Int

----------------------------------------------------------------------------
(* Properties *)

Ticking == tick >= 1
TickOver == Ticking /\ pc = "sleep"
CleanupOver == TickOver /\ evicting_done

\* C1: in a cleanup tick the files are tried oldest-modified-first: of two
\* files tried in the same tick the one modified earlier is tried no later,
\* and the first file tried has the least modification time of the scan.
C1_OldestFirst ==
    /\ \A i, j \in DOMAIN attempts :
          attempts[i].modified < attempts[j].modified => i <= j
    /\ attempts # <<>> => \A f \in inventory : attempts[1].modified <= f.modified

\* C2: a scan whose total is strictly below max_size_mb * 1024 * 1024 leads to
\* no remove_file and no remove_dir call in that tick, whatever the count map holds.
C2_BelowLimitNoAction ==
    (Ticking /\ scanned_total < config.max_size_mb * 1024 * 1024) =>
        /\ attempts = <<>>
        /\ removed_files = {}
        /\ rmdir_attempts = {}
        /\ removed_dirs = {}
        /\ pc = "sleep"

\* a tick below the limit has ended although the count map holds a directory
\* with count 0 and the tree holds files
C2_Witness ==
    /\ TickOver
    /\ scanned_total < config.max_size_mb * 1024 * 1024
    /\ inventory # {}
    /\ \E d \in DOMAIN parent_dirs_files_count : parent_dirs_files_count[d] = 0

AttemptedPaths == {attempts[i].path : i \in DOMAIN attempts}
InventoryPaths == {f.path : f \in inventory}

\* C3: when the while loop of a cleanup tick ends, the running total is at most
\* the margin in bytes or every scanned file has been popped; the running total
\* never grows within a tick, so it never exceeds the scanned total.
C3_EvictionStops ==
    /\ [](evicting_done =>
            \/ total_size <= TargetBytes
            \/ (sorted_files = <<>> /\ AttemptedPaths = InventoryPaths))
    /\ [](Ticking => total_size <= scanned_total)
    /\ [][tick' = tick => total_size' <= total_size]_vars

\* the loop has removed something and stopped at the margin with files left
C3_Witness ==
    /\ evicting_done
    /\ attempts # <<>>
    /\ sorted_files # <<>>
    /\ total_size <= TargetBytes
    /\ total_size < scanned_total

\* the entry the last iteration of the while loop popped
LastAttempt(log) == log[Len(log)]

\* C4: an iteration whose remove_file fails still subtracts the file's size,
\* leaves every count unchanged and stays in the loop; one whose remove_file
\* succeeds subtracts the size and decrements the count of the immediate
\* parent alone.  With one undeletable 200MB file, max_size_mb 100 and margin
\* 50, the total becomes 0, the loop stops and the parent's count stays positive.
C4_FailedDeleteAccounting ==
    /\ [][Len(attempts') = Len(attempts) + 1 =>
            LET file == LastAttempt(attempts') IN
            /\ total_size' = total_size - file.size
            /\ pc' = "evict"
            /\ IF file.path \in failed_files'
               THEN /\ parent_dirs_files_count' = parent_dirs_files_count
                    /\ file.path \in DOMAIN fsFiles'
               ELSE /\ file.path \notin DOMAIN fsFiles'
                    /\ DOMAIN parent_dirs_files_count' = DOMAIN parent_dirs_files_count
                    /\ \A d \in DOMAIN parent_dirs_files_count :
                          parent_dirs_files_count'[d] =
                             IF d = Parent(file.path)
                             THEN parent_dirs_files_count[d] - 1
                             ELSE parent_dirs_files_count[d]]_vars
    /\ []((/\ config = [max_size_mb |-> 100, margin |-> 50]
           /\ \E f \in inventory : inventory = {f} /\ f.size = 200 * MB
           /\ failed_files # {}
           /\ evicting_done) =>
            /\ total_size = 0
            /\ Len(attempts) = 1
            /\ \A f \in inventory :
                  Parent(f.path) \in DOMAIN parent_dirs_files_count =>
                     parent_dirs_files_count[Parent(f.path)] > 0)

\* the only file, 200MB in a subdirectory, could not be deleted and the tick ended
C4_Witness ==
    /\ config = [max_size_mb |-> 100, margin |-> 50]
    /\ \E f \in inventory :
          /\ inventory = {f}
          /\ f.size = 200 * MB
          /\ f.path \in failed_files
          /\ Parent(f.path) \in DOMAIN parent_dirs_files_count
    /\ CleanupOver
    /\ total_size = 0

RECURSIVE SumSizes(_, _)
\* the sizes of the first n entries of a log, added up
SumSizes(log, n) == IF n = 0 THEN 0 ELSE SumSizes(log, n - 1) + log[n].size

\* the running total when the i-th remove_file of the tick was called
TotalBefore(i) == scanned_total - SumSizes(attempts, i - 1)

ThreeFilesOf40MB ==
    /\ config = [max_size_mb |-> 100, margin |-> 85]
    /\ Cardinality(inventory) = 3
    /\ \A f \in inventory : f.size = 40 * MB

\* C5: remove_file is called only while the running total is above the margin
\* in bytes; with three 40MB files, max_size_mb 100 and margin 85 exactly one
\* file, the oldest, is removed, the total becomes 80MB and two files remain.
C5_NoMoreThanNeeded ==
    /\ \A i \in DOMAIN attempts : TotalBefore(i) > TargetBytes
    /\ (ThreeFilesOf40MB /\ evicting_done /\ failed_files = {}) =>
          /\ Len(attempts) = 1
          /\ \A f \in inventory : attempts[1].modified <= f.modified
          /\ total_size = 80 * MB
          /\ Cardinality(DOMAIN fsFiles) = 2

NothingDeleted == removed_files = {} /\ removed_dirs = {}

TrackedRemaining(d) ==
    Cardinality({f \in inventory : StartsWith(f.path, d) /\ f.path \notin removed_files})

\* C7: in a tick that cleans up, a scanned directory is removed if and only
\* if no scanned file not yet deleted remains under it after the evictions
\* and it is empty in the filesystem when the pruning reaches it.
C7_PrunedIff ==
    CleanupOver =>
        \A d \in DOMAIN parent_dirs_files_count :
            d \in removed_dirs <=> (TrackedRemaining(d) <= 0 /\ d \in empty_at_visit)

\* C8: in the tree root/a/b/file, when a cleanup tick has removed the file, the
\* counts of root/a/b and root/a are both 0 and remove_dir was called on both.
C8_NestedBothPruned ==
    (/\ CleanupOver
     /\ InventoryPaths = {File2}
     /\ DOMAIN parent_dirs_files_count = {DirA, DirB}
     /\ File2 \in removed_files) =>
        /\ parent_dirs_files_count[DirB] = 0
        /\ parent_dirs_files_count[DirA] = 0
        /\ {DirA, DirB} \subseteq rmdir_attempts

\* C9: remove_dir is called only after the while loop has ended, and only on
\* directories whose count in the map is then <= 0.
C9_PruneOnlyZeroCount ==
    /\ \A d \in rmdir_attempts :
          /\ evicting_done
          /\ d \in DOMAIN parent_dirs_files_count
          /\ parent_dirs_files_count[d] <= 0
    /\ removed_dirs \subseteq rmdir_attempts
    /\ pc = "evict" => rmdir_attempts = {}

\* a tick has ended in which one directory was tried and another, with a
\* positive count, was passed over
C9_Witness ==
    /\ CleanupOver
    /\ rmdir_attempts # {}
    /\ \E d \in DOMAIN parent_dirs_files_count : parent_dirs_files_count[d] > 0

\* C10: the scan root is never a key of the count map, every key lies strictly
\* inside it, the root is never passed to remove_dir and never removed, and a
\* file removed directly from the root changes no count.
C10_RootNeverTracked ==
    /\ [](/\ Directory \notin DOMAIN parent_dirs_files_count
          /\ \A d \in DOMAIN parent_dirs_files_count :
                StartsWith(d, Directory) /\ d # Directory
          /\ Directory \notin rmdir_attempts
          /\ Directory \in fsDirs)
    /\ [][(\E f \in removed_files' \ removed_files : Parent(f) = Directory) =>
            parent_dirs_files_count' = parent_dirs_files_count]_vars

\* a tick has ended in which every file, one of them directly in the root, and
\* every directory was removed: the root is empty and still there
C10_Witness ==
    /\ CleanupOver
    /\ File0 \in removed_files
    /\ removed_dirs # {}
    /\ Children(Directory) = {}
    /\ Directory \in fsDirs

\* a tree without files was scanned
NoFilesScanned == Ticking /\ inventory = {} /\ DOMAIN fsFiles = {}

NoAction ==
    /\ total_size = 0
    /\ attempts = <<>>
    /\ rmdir_attempts = {}
    /\ NothingDeleted

\* C12 as stated: a tick over a tree without files does nothing, for every
\* max_size_mb, 0 included.
C12_EmptyTreeNoAction == NoFilesScanned => NoAction

\* C12 as amended: a tick over a tree without files does nothing, for every
\* max_size_mb >= 1.
C12_EmptyTreeNoActionAboveZero ==
    (NoFilesScanned /\ config.max_size_mb >= 1) => NoAction

\* a tick over a tree of empty directories alone has ended
C12_Witness ==
    /\ TickOver
    /\ NoFilesScanned
    /\ config.max_size_mb >= 1
    /\ DOMAIN parent_dirs_files_count # {}
    /\ \A d \in DOMAIN parent_dirs_files_count : parent_dirs_files_count[d] = 0

\* C13 as stated: a directory with count <= 0 whose remove_dir failed only
\* because of a child directory removed later in the same tick is removed by
\* the following tick.
C13_ParentNextTick == (TickOver /\ prev.ran) => prev.blocked \subseteq removed_dirs

\* C13 as amended: ... is removed by the following tick if that tick cleans
\* up, i.e. its scanned total is not below max_size_mb * 1024 * 1024.
C13_ParentNextCleanupTick ==
    (/\ TickOver
     /\ prev.ran
     /\ scanned_total >= config.max_size_mb * 1024 * 1024) =>
        prev.blocked \subseteq removed_dirs

\* the tick after one that left a parent behind has removed it
C13_Witness ==
    /\ TickOver
    /\ prev.ran
    /\ prev.blocked # {}
    /\ prev.blocked \subseteq removed_dirs

\* C14: within a tick every scanned file is popped and tried at most once, so
\* the loop makes at most as many attempts as files were scanned, also when
\* deletions fail; every iteration shortens the queue.
C14_LoopTerminates ==
    /\ [](/\ Len(attempts) <= Cardinality(inventory)
          /\ \A i, j \in DOMAIN attempts : i # j => attempts[i].path # attempts[j].path
          /\ pc = "evict" => Len(attempts) + Len(sorted_files) = Cardinality(inventory))
    /\ [][(pc = "evict" /\ pc' = "evict") =>
            Len(sorted_files') < Len(sorted_files)]_vars

\* every deletion of a tick with three files failed and the loop has ended
C14_Witness ==
    /\ evicting_done
    /\ Cardinality(inventory) = 3
    /\ Cardinality(failed_files) = 3
    /\ removed_files = {}

\* C15: after the seeding and before any eviction the keys of the count map
\* are the scanned directories strictly inside the root, and each value is the
\* number of scanned files anywhere below that directory.
C15_SeededCounts ==
    (Ticking /\ attempts = <<>> /\ removed_dirs = {}) =>
        /\ DOMAIN parent_dirs_files_count = fsDirs \ {Directory}
        /\ \A d \in DOMAIN parent_dirs_files_count :
              parent_dirs_files_count[d] =
                 Cardinality({f \in inventory :
                                 StartsWith(f.path, d) /\ f.path # d})

\* a seeded map with an empty directory and a directory holding two files below it
C15_Witness ==
    /\ pc = "evict"
    /\ attempts = <<>>
    /\ \E d \in DOMAIN parent_dirs_files_count : parent_dirs_files_count[d] = 2
    /\ File0 \in InventoryPaths

\* C16: in a cleanup tick the running total is the sum of the sizes of the
\* files still queued, so the subtraction never goes below 0 and an empty
\* queue means a total of exactly 0.
C16_TotalIsQueueSum ==
    /\ total_size >= 0
    /\ (pc = "evict" \/ evicting_done) =>
          /\ total_size = SumSizes(sorted_files, Len(sorted_files))
          /\ sorted_files = <<>> => total_size = 0
          /\ scanned_total = total_size + SumSizes(attempts, Len(attempts))

\* the queue of a tick that scanned bytes in nested directories is exhausted
C16_Witness ==
    /\ evicting_done
    /\ sorted_files = <<>>
    /\ Len(attempts) = 3
    /\ scanned_total > 0
    /\ total_size = 0

\* C17: every count is at least 0 and at least the number of scanned files
\* below its directory whose deletion has not succeeded; remove_dir is never
\* called on a directory with such a file below it.
C17_CountCoversRemaining ==
    /\ \A d \in DOMAIN parent_dirs_files_count :
          /\ parent_dirs_files_count[d] >= 0
          /\ parent_dirs_files_count[d] >= TrackedRemaining(d)
    /\ \A d \in rmdir_attempts : TrackedRemaining(d) = 0

\* a tick has ended with a failed deletion below one directory and a
\* remove_dir call on another
C17_Witness ==
    /\ CleanupOver
    /\ failed_files # {}
    /\ rmdir_attempts # {}
    /\ \E d \in DOMAIN parent_dirs_files_count : TrackedRemaining(d) > 0

\* C19: the low-water mark of the loop is floor(margin * max_size_mb *
\* 1024 * 1024 / 100) for every margin and max_size_mb.
C19_ExactFloor ==
    pc = "evict" =>
        TargetBytes = MulDiv(config.max_size_mb * 1024 * 1024, config.margin, 100).q

\* main is at the sleep that ends the loop body, and the loop has no exit
AtSleep == pc = "sleep"

\* C11: when the scan root cannot be listed the tick calls neither
\* remove_file nor remove_dir and changes nothing in the tree, main goes to
\* the sleep from which the next tick starts, and a later tick whose scan succeeds starts from that
\* scan alone, as a first tick would.
C11_RootScanFailure ==
    /\ []((Ticking /\ Directory \in unlistable) =>
            (scan_failed /\ pc = "sleep" /\ NoAction))
    /\ [](scan_failed => AtSleep)
    /\ [][(tick' = tick + 1 /\ scan_failed') =>
            (fsFiles' = fsFiles /\ fsDirs' = fsDirs)]_vars
    /\ [][(scan_failed /\ tick' = tick + 1 /\ ~scan_failed') =>
            \E data \in read_dir(Directory) :
               /\ data.ok
               /\ total_size' = data.total_size
               /\ parent_dirs_files_count' = SeedCounts(EmptyMap, data.entries, 1, Directory)
               /\ sorted_files' = IF pc' = "evict"
                                  THEN SortByModified(FilesOf(data.entries))
                                  ELSE <<>>
               /\ pc' = IF data.total_size < config.max_size_mb * 1024 * 1024
                        THEN "sleep" ELSE "evict"
               /\ attempts' = <<>>
               /\ rmdir_attempts' = {}]_vars

\* after a tick in which the root could not be listed, a tick has scanned
\* the tree and removed files
C11_Witness ==
    /\ TickOver
    /\ prev.scan_failed
    /\ ~scan_failed
    /\ removed_files # {}
    /\ fsDirs = {Directory}
    /\ removed_dirs = {}

\* neither the entry nor a directory above it, below the root, is unstatable
Visible(p) ==
    \A k \in (Len(Directory) + 1)..Len(p) : SubSeq(p, 1, k) \notin unstatable

VisibleFiles == {f \in DOMAIN fsFiles : Visible(f)}

RECURSIVE SumFiles(_)
SumFiles(S) ==
    IF S = {} THEN 0
    ELSE LET f == CHOOSE x \in S : TRUE IN fsFiles[f].size + SumFiles(S \ {f})

NestedUnlistable ==
    \E d \in unlistable \ {Directory} : d \in fsDirs /\ Visible(d)

\* C18: while a directory below the root cannot be listed every tick's scan
\* fails and the tick does nothing, whatever the usage; an entry whose
\* metadata cannot be read is left out of the inventory and the total, and
\* the other entries are scanned.
C18_NestedScanFailure ==
    /\ (Ticking /\ NestedUnlistable) => (scan_failed /\ pc = "sleep" /\ NoAction)
    /\ (Ticking /\ ~scan_failed /\ attempts = <<>> /\ removed_dirs = {}) =>
          /\ InventoryPaths = VisibleFiles
          /\ scanned_total = SumFiles(VisibleFiles)
          /\ DOMAIN parent_dirs_files_count = {d \in fsDirs \ {Directory} : Visible(d)}

\* two ticks in a row have failed on a subdirectory that cannot be listed,
\* with the usage at or above the limit
C18_Witness ==
    /\ tick = 2
    /\ scan_failed
    /\ prev.scan_failed
    /\ NestedUnlistable
    /\ SumFiles(VisibleFiles) > 0
    /\ SumFiles(VisibleFiles) >= config.max_size_mb * 1024 * 1024

====
